---- MODULE Spec2Model ----
(***************************************************************************)
(* Model of _macals.c: the LightSensor object, the _LightSensorIterator    *)
(* cursor and the module functions list_sensors / find_sensor, over an     *)
(* IOKit registry whose native references must be released explicitly.     *)
(*                                                                         *)
(* A service reference is a Mach port name: every IOIteratorNext that      *)
(* returns service s adds one reference to s, every IOObjectRelease(s)     *)
(* removes one.  urefs[s] counts the references to s not yet released.     *)
(***************************************************************************)
EXTENDS Integers, Sequences, FiniteSets, TLC

\* ---------------------------------------------------------------- bounds
MaxReg ==
  2
MaxHandles ==
  2
MaxCursors ==
  1

\* ------------------------------------------------------ program constants
MACH_PORT_NULL ==
  0
SERVICE_NAME_SIZE ==
  128

VARIABLES
  names,     \* registry: names[s] is the name of service s, in discovery order
  lux,       \* registry: lux[s] is the CurrentLux property of service s
  urefs,     \* urefs[s]: references to service s obtained and not yet released
  iters,     \* io_iterator_t objects obtained and not yet released
  cf,        \* CFTypeRef property values created and not yet CFRelease'd
  over,      \* TRUE once a reference was released that was not held
  handles,   \* LightSensorObject per slot: alive, service, service_name
  cursors,   \* LightSensorIterator per slot: alive, iter position; history
  last       \* history: the operation that just ran, its inputs and result

vars ==
  <<names, lux, urefs, iters, cf, over, handles, cursors, last>>

HandleIds ==
  1..MaxHandles
CursorIds ==
  1..MaxCursors
Services ==
  1..Len(names)

\* A name is a C string, modelled as a sequence of characters.
Name(k) ==
  <<k>>
EmptyName ==
  <<>>
\* Names a caller may ask for: every name in the registry and one that is
\* not in it.
ReqNames ==
  {names[s] : s \in Services} \cup {Name(MaxReg + 1)}

\* The CurrentLux property of a service: absent, a CFNumber (in half-lux
\* units, so that 42.5 lux is 85 and 10.0 lux is 20; the property is a
\* float-width number natively), or a CF value of another type.
NoLux ==
  [t |-> "absent", v |-> 0]
OtherLux ==
  [t |-> "other", v |-> 0]
LuxVals ==
  {NoLux, OtherLux, [t |-> "number", v |-> 20], [t |-> "number", v |-> 85]}

\* Registries up to renaming of the names: the first occurrences of the
\* names appear in the order 1, 2, 3, ...
Canonical(f, n) ==
  \A i \in 1..n : \A k \in 2..MaxReg :
      f[i] = k => \E j \in 1..(i - 1) : f[j] = k - 1
Registries ==
  UNION {{[i \in 1..n |-> Name(f[i])] :
             f \in {g \in [1..n -> 1..MaxReg] : Canonical(g, n)}} : n \in 0..MaxReg}

\* ------------------------------------------------------------ the objects
\* PyType_GenericNew zero-fills the object: service 0, service_name "".
NullSensor ==
  [alive |-> FALSE, service |-> MACH_PORT_NULL, service_name |-> EmptyName]
LightSensorObject ==
  [alive |-> TRUE, service |-> MACH_PORT_NULL, service_name |-> EmptyName]
\* pos: how many services the io_iterator_t has returned.  ended, clean and
\* yielded are history: next() returned StopIteration; no call on the cursor
\* failed and the registry did not change since list_sensors; the handles
\* next() returned so far (kept only while the cursor is clean).
NullIterator ==
  [alive |-> FALSE, pos |-> 0, ended |-> FALSE, clean |-> FALSE, yielded |-> <<>>]
LightSensorIterator ==
  [alive |-> TRUE, pos |-> 0, ended |-> FALSE, clean |-> TRUE, yielded |-> <<>>]

\* The value of a local variable: the element of a one-element set.  A
\* handler binds each intermediate result once, x \in {e}, as the code
\* assigns a local once.
The(S) ==
  CHOOSE x \in S : TRUE

\* The native references outstanding, threaded through a handler's steps.
World ==
  [urefs |-> urefs, iters |-> iters, cf |-> cf, over |-> over]

\* ------------------------------------------------------- platform calls
\* IOObjectRelease on a service: drops one reference; releasing a name that
\* holds no reference is a double release.
IOObjectRelease(w, s) ==
  IF w.urefs[s] = 0
    THEN [w EXCEPT !.over = TRUE]
    ELSE [w EXCEPT !.urefs[s] = @ - 1]

\* IOObjectRelease on an io_iterator_t.
IOObjectReleaseIter(w) ==
  IF w.iters = 0
    THEN [w EXCEPT !.over = TRUE]
    ELSE [w EXCEPT !.iters = @ - 1]

\* IOIteratorNext: the next service with one more reference, or 0 at the
\* end, where it stays.
IOIteratorNext(w, pos) ==
  IF pos < Len(names)
    THEN [w |-> [w EXCEPT !.urefs[pos + 1] = @ + 1], service |-> pos + 1, pos |-> pos + 1]
    ELSE [w |-> w, service |-> 0, pos |-> pos]

\* IOServiceGetMatchingServices: a new iterator over every service.
IOServiceGetMatchingServices(w) ==
  [w EXCEPT !.iters = @ + 1]

\* IORegistryEntryCreateCFProperty(s, "CurrentLux"): a new CF value, or NULL
\* when the property is absent or s is no live reference.
IORegistryEntryCreateCFProperty(w, s) ==
  IF w.urefs[s] > 0 /\ lux[s].t # "absent"
    THEN [w |-> [w EXCEPT !.cf = @ + 1], value |-> lux[s]]
    ELSE [w |-> w, value |-> NoLux]

\* CFNumberGetValue(v, kCFNumberFloatType, &lux): the number as a float; the
\* property values are float-width, so the conversion keeps the value.
CFNumberGetValue(p) ==
  p.v

CFRelease(w) ==
  IF w.cf = 0
    THEN [w EXCEPT !.over = TRUE]
    ELSE [w EXCEPT !.cf = @ - 1]

\* IORegistryEntryGetName(s, buf): the name, unless the call fails (env).
IORegistryEntryGetName(s, bad) ==
  IF s \in bad
    THEN [ok |-> FALSE, name |-> EmptyName]
    ELSE [ok |-> TRUE, name |-> names[s]]

\* Mutant of snprintf: the size is taken one short of the string.
snprintfShort(name) ==
  SubSeq(name, 1, Len(name) - 1)

\* snprintf(self->service_name, sizeof(self->service_name), "%s", name)
snprintf(name) ==
  SubSeq(name, 1, IF Len(name) < SERVICE_NAME_SIZE THEN Len(name) ELSE SERVICE_NAME_SIZE - 1)

\* What the platform and the allocator answer during one LightSensor_init:
\* parse: the argument is a string; dict, query: the two registry calls
\* succeed; bad: the services whose name lookup fails.
\* An answer that is never asked for (after an earlier failure) is left TRUE.
InitEnvs ==
  {e \in [parse : BOOLEAN, dict : BOOLEAN, query : BOOLEAN, bad : SUBSET Services] :
     /\ ~e.parse => e.dict
     /\ ~e.dict => e.query
     /\ ~(e.parse /\ e.dict /\ e.query) => e.bad = {}}
AllOk ==
  [parse |-> TRUE, dict |-> TRUE, query |-> TRUE, bad |-> {}]
\* A call that fails before the name is looked at is tried with one name
\* only; a name lookup that fails on a service of another name takes the
\* branch a mismatch takes, so only lookups on services of that name fail.
Asked(name, alloc, env) ==
  /\ ~(alloc /\ env.parse /\ env.dict /\ env.query) => name = Name(MaxReg + 1)
  /\ \A s \in env.bad : names[s] = name

\* --------------------------------------------------------- LightSensor
\* Mutant of LightSensor_dealloc: the reference is released twice.
LightSensor_deallocTwice(self, w) ==
  IF self.service # MACH_PORT_NULL
    THEN [self |-> NullSensor,
          w |-> IOObjectRelease(IOObjectRelease(w, self.service), self.service)]
    ELSE [self |-> NullSensor, w |-> w]

LightSensor_dealloc(self, w) ==
  IF self.service # MACH_PORT_NULL
    THEN [self |-> NullSensor, w |-> IOObjectRelease(w, self.service)]
    ELSE [self |-> NullSensor, w |-> w]

\* The while loop of LightSensor_init.
RECURSIVE InitScan(_, _, _, _)
InitScan(w, pos, name, bad) ==
  The({ IF n.service = 0
          THEN [w |-> n.w, service |-> MACH_PORT_NULL]
        ELSE IF IORegistryEntryGetName(n.service, bad).ok
                /\ IORegistryEntryGetName(n.service, bad).name = name
          THEN [w |-> n.w, service |-> n.service]
          ELSE InitScan(IOObjectRelease(n.w, n.service), n.pos, name, bad)
        : n \in {IOIteratorNext(w, pos)} })

\* Mutant of LightSensor_init: the iterator is not released when no service
\* matches.
LightSensor_initLeak(self, w, name, env) ==
  IF ~env.parse
    THEN [self |-> self, w |-> w, res |-> "TypeError", scanned |-> FALSE]
  ELSE IF ~env.dict \/ ~env.query
    THEN [self |-> self, w |-> w, res |-> "QueryFailed", scanned |-> FALSE]
  ELSE
    The({ IF sc.service = MACH_PORT_NULL
            THEN [self |-> self, w |-> sc.w, res |-> "NotFound", scanned |-> TRUE]
            ELSE [self |-> [self EXCEPT !.service = sc.service,
                                        !.service_name = snprintf(name)],
                  w |-> IF self.service # MACH_PORT_NULL
                          THEN IOObjectRelease(IOObjectReleaseIter(sc.w), self.service)
                          ELSE IOObjectReleaseIter(sc.w),
                  res |-> "ok", scanned |-> TRUE]
          : sc \in {InitScan(IOServiceGetMatchingServices(w), 0, name, env.bad)} })

\* Mutant of LightSensor_init: no check that a service was found.
LightSensor_initNoCheck(self, w, name, env) ==
  IF ~env.parse
    THEN [self |-> self, w |-> w, res |-> "TypeError", scanned |-> FALSE]
  ELSE IF ~env.dict \/ ~env.query
    THEN [self |-> self, w |-> w, res |-> "QueryFailed", scanned |-> FALSE]
  ELSE
    The({ [self |-> [self EXCEPT !.service = sc.service,
                                 !.service_name = snprintf(name)],
           w |-> IF self.service # MACH_PORT_NULL
                   THEN IOObjectRelease(IOObjectReleaseIter(sc.w), self.service)
                   ELSE IOObjectReleaseIter(sc.w),
           res |-> "ok", scanned |-> TRUE]
          : sc \in {InitScan(IOServiceGetMatchingServices(w), 0, name, env.bad)} })

\* Mutant of LightSensor_init: the old reference is released before the scan.
LightSensor_initEager(self, w, name, env) ==
  IF ~env.parse
    THEN [self |-> self, w |-> w, res |-> "TypeError", scanned |-> FALSE]
  ELSE IF ~env.dict \/ ~env.query
    THEN [self |-> self, w |-> w, res |-> "QueryFailed", scanned |-> FALSE]
  ELSE
    The({ IF sc.service = MACH_PORT_NULL
            THEN [self |-> self, w |-> IOObjectReleaseIter(sc.w),
                  res |-> "NotFound", scanned |-> TRUE]
            ELSE [self |-> [self EXCEPT !.service = sc.service,
                                        !.service_name = snprintf(name)],
                  w |-> IOObjectReleaseIter(sc.w),
                  res |-> "ok", scanned |-> TRUE]
          : sc \in {InitScan(IOServiceGetMatchingServices(
                                IF self.service # MACH_PORT_NULL
                                  THEN IOObjectRelease(w, self.service)
                                  ELSE w), 0, name, env.bad)} })

LightSensor_init(self, w, name, env) ==
  IF ~env.parse
    THEN [self |-> self, w |-> w, res |-> "TypeError", scanned |-> FALSE]
  ELSE IF ~env.dict \/ ~env.query
    THEN [self |-> self, w |-> w, res |-> "QueryFailed", scanned |-> FALSE]
  ELSE
    The({ IF sc.service = MACH_PORT_NULL
            THEN [self |-> self, w |-> IOObjectReleaseIter(sc.w),
                  res |-> "NotFound", scanned |-> TRUE]
            ELSE [self |-> [self EXCEPT !.service = sc.service,
                                        !.service_name = snprintf(name)],
                  w |-> IF self.service # MACH_PORT_NULL
                          THEN IOObjectRelease(IOObjectReleaseIter(sc.w), self.service)
                          ELSE IOObjectReleaseIter(sc.w),
                  res |-> "ok", scanned |-> TRUE]
          : sc \in {InitScan(IOServiceGetMatchingServices(w), 0, name, env.bad)} })

\* Calling the type: tp_new, then tp_init; a failed tp_init drops the object.
LightSensor_call(w, name, alloc, env) ==
  IF ~alloc
    THEN [self |-> NullSensor, w |-> w, res |-> "MemoryError", scanned |-> FALSE]
    ELSE The({ IF r.res = "ok"
                 THEN r
                 ELSE [self |-> LightSensor_dealloc(r.self, r.w).self,
                       w |-> LightSensor_dealloc(r.self, r.w).w,
                       res |-> r.res, scanned |-> r.scanned]
               : r \in {LightSensor_init(LightSensorObject, w, name, env)} })

\* Mutant of LightSensor_get_current_lux: the value is not released when it
\* is not a number.
LightSensor_get_current_luxLeak(self, w) ==
  IF self.service = MACH_PORT_NULL
    THEN [self |-> self, w |-> w, res |-> "InvalidHandle", value |-> 0]
    ELSE The({ IF p.value.t = "absent"
                 THEN [self |-> self, w |-> p.w, res |-> "PropertyUnavailable", value |-> 0]
               ELSE IF p.value.t = "number"
                 THEN [self |-> self, w |-> CFRelease(p.w), res |-> "ok",
                       value |-> CFNumberGetValue(p.value)]
                 ELSE [self |-> self, w |-> p.w, res |-> "TypeMismatch", value |-> 0]
               : p \in {IORegistryEntryCreateCFProperty(w, self.service)} })

LightSensor_get_current_lux(self, w) ==
  IF self.service = MACH_PORT_NULL
    THEN [self |-> self, w |-> w, res |-> "InvalidHandle", value |-> 0]
    ELSE The({ IF p.value.t = "absent"
                 THEN [self |-> self, w |-> p.w, res |-> "PropertyUnavailable", value |-> 0]
               ELSE IF p.value.t = "number"
                 THEN [self |-> self, w |-> CFRelease(p.w), res |-> "ok",
                       value |-> CFNumberGetValue(p.value)]
                 ELSE [self |-> self, w |-> CFRelease(p.w), res |-> "TypeMismatch", value |-> 0]
               : p \in {IORegistryEntryCreateCFProperty(w, self.service)} })

\* -------------------------------------------------- _LightSensorIterator
\* What the platform and the allocator answer during one next(): kr: the
\* candidate's name lookup succeeds; args: PyTuple_Pack succeeds; alloc:
\* tp_new succeeds; init: the answers to the LightSensor_init it runs.
NextEnvs ==
  {e \in [kr : BOOLEAN, args : BOOLEAN, alloc : BOOLEAN, init : InitEnvs] :
     /\ e.init.parse
     /\ ~e.kr => e.args
     /\ ~e.args => e.alloc
     /\ ~(e.kr /\ e.args /\ e.alloc) => e.init = AllOk}

\* What list_sensors meets: the two registry calls and PyObject_New.
ListEnvs ==
  {e \in [dict : BOOLEAN, query : BOOLEAN, alloc : BOOLEAN] :
     /\ ~e.dict => e.query
     /\ ~e.query => e.alloc}
NextAllOk ==
  [kr |-> TRUE, args |-> TRUE, alloc |-> TRUE, init |-> AllOk]
\* The answers that are asked for when next() stops at candidate cand: none
\* when it stops at the end, and name lookups of services of that name.
Met(cand, env) ==
  IF cand = 0
    THEN env = NextAllOk
    ELSE \A s \in env.init.bad : names[s] = names[cand]

\* The cursor of list_sensors always holds an iterator (iter is not 0).
LightSensorIterator_dealloc(w) ==
  IOObjectReleaseIter(w)

\* The body of the while loop for a candidate that has the property: the
\* name is read from the candidate and LightSensor(name) is called.
NextOpen(w, service, env) ==
  The({ IF got.ok /\ env.args
          THEN LightSensor_call(w, got.name, env.alloc, env.init)
          ELSE [self |-> NullSensor, w |-> w, res |-> "NoCall", scanned |-> FALSE]
        : got \in {IORegistryEntryGetName(service, IF env.kr THEN {} ELSE {service})} })

\* Mutant of NextBody: the candidate is released only when the handle opens.
NextBodyLeak(n, p, env) ==
  The({ [w |-> IF o.res = "ok"
                 THEN IOObjectRelease(CFRelease(o.w), n.service)
                 ELSE CFRelease(o.w),
         pos |-> n.pos,
         res |-> IF o.res = "ok" THEN "ok" ELSE "MemoryError",
         sensor |-> o.self, cand |-> n.service]
        : o \in {NextOpen(p.w, n.service, env)} })

\* The loop body for candidate n.service, p its CurrentLux property.
NextBody(n, p, env) ==
  The({ [w |-> IOObjectRelease(CFRelease(o.w), n.service), pos |-> n.pos,
         res |-> IF o.res = "ok" THEN "ok" ELSE "MemoryError",
         sensor |-> o.self, cand |-> n.service]
        : o \in {NextOpen(p.w, n.service, env)} })

\* The while loop of LightSensorIterator_next.
RECURSIVE NextLoop(_, _, _)
NextLoop(w, pos, env) ==
  The({ IF n.service = 0
          THEN [w |-> n.w, pos |-> n.pos, res |-> "StopIteration",
                sensor |-> NullSensor, cand |-> 0]
          ELSE The({ IF p.value.t # "absent"
                       THEN NextBody(n, p, env)
                       ELSE NextLoop(IOObjectRelease(p.w, n.service), n.pos, env)
                     : p \in {IORegistryEntryCreateCFProperty(n.w, n.service)} })
        : n \in {IOIteratorNext(w, pos)} })

\* Mutant of LightSensorIterator_next: an iterator at its end starts again.
LightSensorIterator_nextReset(w, pos, env) ==
  NextLoop(w, IF pos = Len(names) THEN 0 ELSE pos, env)

LightSensorIterator_next(w, pos, env) ==
  NextLoop(w, pos, env)

\* py_list_sensors: the registry query and the new cursor object.
py_list_sensors(w, env) ==
  IF ~env.dict \/ ~env.query
    THEN [w |-> w, res |-> "QueryFailed"]
  ELSE IF ~env.alloc
    THEN [w |-> IOObjectReleaseIter(IOServiceGetMatchingServices(w)), res |-> "MemoryError"]
    ELSE [w |-> IOServiceGetMatchingServices(w), res |-> "ok"]

\* py_find_sensor: list_sensors, one PyIter_Next, the cursor dropped; a NULL
\* from PyIter_Next becomes "No ambient light sensor found."
FindFirst(it, nenv) ==
  The({ IF first.res # "ok"
          THEN [w |-> LightSensorIterator_dealloc(first.w), res |-> "NoSensorFound",
                sensor |-> NullSensor, first |-> first.res, cand |-> first.cand]
          ELSE [w |-> LightSensorIterator_dealloc(first.w), res |-> "ok",
                sensor |-> first.sensor, first |-> first.res, cand |-> first.cand]
        : first \in {LightSensorIterator_next(it.w, 0, nenv)} })

py_find_sensor(w, lenv, nenv) ==
  The({ IF it.res # "ok"
          THEN [w |-> it.w, res |-> it.res, sensor |-> NullSensor,
                first |-> "NoScan", cand |-> 0]
          ELSE FindFirst(it, nenv)
        : it \in {py_list_sensors(w, lenv)} })

\* ------------------------------------------------------------ the machine
NoOp ==
  [op |-> "none", h |-> 0, c |-> 0, name |-> EmptyName, res |-> "none", value |-> 0,
   before |-> NullSensor, first |-> "none", cand |-> 0, ended |-> FALSE,
   prev |-> NoLux, pos |-> 0]

FreeHandles ==
  {h \in HandleIds : ~handles[h].alive}
FreeCursors ==
  {c \in CursorIds : ~cursors[c].alive}
\* A new object takes the lowest free slot.
NewHandle ==
  CHOOSE h \in FreeHandles : \A g \in FreeHandles : h <= g
NewCursor ==
  CHOOSE c \in FreeCursors : \A d \in FreeCursors : c <= d

SetWorld(w) ==
  /\ urefs' = w.urefs
  /\ iters' = w.iters
  /\ cf' = w.cf
  /\ over' = w.over

Init ==
  /\ names \in Registries
  /\ lux \in [1..Len(names) -> LuxVals]
  /\ urefs = [s \in 1..Len(names) |-> 0]
  /\ iters = 0
  /\ cf = 0
  /\ over = FALSE
  /\ handles = [h \in HandleIds |-> NullSensor]
  /\ cursors = [c \in CursorIds |-> NullIterator]
  /\ last = NoOp

\* LightSensor.__new__(LightSensor): an object that was never initialised.
New ==
  /\ FreeHandles # {}
  /\ handles' = [handles EXCEPT ![NewHandle] = LightSensorObject]
  /\ last' = [NoOp EXCEPT !.op = "new", !.h = NewHandle, !.res = "ok"]
  /\ UNCHANGED <<names, lux, urefs, iters, cf, over, cursors>>

\* LightSensor(name)
Open ==
  /\ FreeHandles # {}
  /\ \E name \in ReqNames, alloc \in BOOLEAN, env \in InitEnvs :
       /\ ~alloc => env = AllOk
       /\ Asked(name, alloc, env)
       /\ \E r \in {LightSensor_call(World, name, alloc, env)} :
            /\ SetWorld(r.w)
            /\ handles' = [handles EXCEPT ![NewHandle] = r.self]
            /\ last' = [NoOp EXCEPT !.op = "open", !.h = NewHandle, !.res = r.res,
                                    !.name = IF r.scanned THEN name ELSE EmptyName]
  /\ UNCHANGED <<names, lux, cursors>>

\* h.__init__(name) on an object that exists already
ReInit ==
  \E h \in HandleIds :
    /\ handles[h].alive
    /\ \E name \in ReqNames, env \in InitEnvs :
         /\ Asked(name, TRUE, env)
         /\ \E r \in {LightSensor_init(handles[h], World, name, env)} :
              /\ SetWorld(r.w)
              /\ handles' = [handles EXCEPT ![h] = r.self]
              /\ last' = [NoOp EXCEPT !.op = "init", !.h = h, !.res = r.res,
                                      !.name = IF r.res = "ok" THEN name ELSE EmptyName,
                                      !.before = handles[h]]
    /\ UNCHANGED <<names, lux, cursors>>

\* h.get_current_lux()
GetCurrentLux ==
  \E h \in HandleIds :
    /\ handles[h].alive
    /\ \E r \in {LightSensor_get_current_lux(handles[h], World)} :
         /\ SetWorld(r.w)
         /\ handles' = [handles EXCEPT ![h] = r.self]
         /\ last' = [NoOp EXCEPT !.op = "lux", !.h = h, !.res = r.res, !.value = r.value,
                                 !.before = handles[h],
                                 !.prev = IF last.op = "registry" /\ last.h = h
                                            THEN last.prev ELSE NoLux]
    /\ UNCHANGED <<names, lux, cursors>>

\* the last Python reference to h goes away
Dealloc ==
  \E h \in HandleIds :
    /\ handles[h].alive
    /\ \E r \in {LightSensor_dealloc(handles[h], World)} :
         /\ SetWorld(r.w)
         /\ handles' = [handles EXCEPT ![h] = r.self]
         /\ last' = [NoOp EXCEPT !.op = "dealloc", !.h = h, !.res = "ok",
                                 !.before = handles[h]]
    /\ UNCHANGED <<names, lux, cursors>>

\* list_sensors()
ListSensors ==
  /\ FreeCursors # {}
  /\ \E env \in ListEnvs :
       \E r \in {py_list_sensors(World, env)} :
         /\ SetWorld(r.w)
         /\ cursors' = [cursors EXCEPT ![NewCursor] =
                          IF r.res = "ok" THEN LightSensorIterator ELSE NullIterator]
         /\ last' = [NoOp EXCEPT !.op = "list", !.c = NewCursor, !.res = r.res]
  /\ UNCHANGED <<names, lux, handles>>

\* The history a cursor keeps of its next() calls.
Advance(cur, r) ==
  [cur EXCEPT !.pos = r.pos,
              !.ended = @ \/ r.res = "StopIteration",
              !.clean = @ /\ r.res # "MemoryError",
              !.yielded = IF ~cur.clean \/ r.res = "MemoryError"
                            THEN <<>>
                          ELSE IF r.res = "ok"
                            THEN Append(@, [cand |-> r.cand,
                                            service |-> r.sensor.service,
                                            name |-> r.sensor.service_name])
                            ELSE @]

\* next(c)
Next_ ==
  /\ FreeHandles # {}
  /\ \E c \in CursorIds :
       /\ cursors[c].alive
       /\ \E env \in NextEnvs :
            \E r \in {LightSensorIterator_next(World, cursors[c].pos, env)} :
              /\ Met(r.cand, env)
              /\ SetWorld(r.w)
              /\ handles' = [handles EXCEPT ![NewHandle] = r.sensor]
              /\ cursors' = [cursors EXCEPT ![c] = Advance(@, r)]
              /\ last' = [NoOp EXCEPT !.op = "next", !.c = c, !.h = NewHandle,
                            !.res = r.res, !.cand = r.cand, !.pos = cursors[c].pos,
                            !.ended = cursors[c].ended]
  /\ UNCHANGED <<names, lux>>

\* the last Python reference to c goes away
IterDealloc ==
  \E c \in CursorIds :
    /\ cursors[c].alive
    /\ SetWorld(LightSensorIterator_dealloc(World))
    /\ cursors' = [cursors EXCEPT ![c] = NullIterator]
    /\ last' = [NoOp EXCEPT !.op = "iterdealloc", !.c = c, !.res = "ok"]
    /\ UNCHANGED <<names, lux, handles>>

\* find_sensor()
FindSensor ==
  /\ FreeHandles # {}
  /\ \E lenv \in ListEnvs, nenv \in NextEnvs :
       \E r \in {py_find_sensor(World, lenv, nenv)} :
         /\ Met(r.cand, nenv)
         /\ SetWorld(r.w)
         /\ handles' = [handles EXCEPT ![NewHandle] = r.sensor]
         /\ last' = [NoOp EXCEPT !.op = "find", !.h = NewHandle, !.res = r.res,
                       !.first = r.first, !.cand = r.cand]
  /\ UNCHANGED <<names, lux, cursors>>

\* The platform changes the CurrentLux property of a service.
RegistryChange ==
  \E s \in Services, v \in LuxVals :
    /\ lux[s] # v
    /\ lux' = [lux EXCEPT ![s] = v]
    /\ cursors' = [c \in CursorIds |->
                     [cursors[c] EXCEPT !.clean = FALSE, !.yielded = <<>>]]
    /\ last' = IF last.op = "lux" /\ last.res = "ok"
                 THEN [NoOp EXCEPT !.op = "registry", !.h = last.h,
                                   !.prev = [t |-> "number", v |-> last.value]]
                 ELSE [NoOp EXCEPT !.op = "registry"]
    /\ UNCHANGED <<names, urefs, iters, cf, over, handles>>

Next ==
  \/ New
  \/ Open
  \/ ReInit
  \/ GetCurrentLux
  \/ Dealloc
  \/ ListSensors
  \/ Next_
  \/ IterDealloc
  \/ FindSensor
  \/ RegistryChange

Spec ==
  Init /\ [][Next]_vars

\* ------------------------------------------------------------ properties
Holders(s) ==
  {h \in HandleIds : handles[h].alive /\ handles[h].service = s}
LiveCursors ==
  {c \in CursorIds : cursors[c].alive}
\* Every reference obtained and not released is owned: by a live handle (a
\* service) or by a live cursor (an iterator).
Accounted ==
  /\ \A s \in Services : urefs[s] = Cardinality(Holders(s))
  /\ iters = Cardinality(LiveCursors)
DistinctNames ==
  \A s, t \in Services : names[s] = names[t] => s = t
Exposing(s) ==
  lux[s].t # "absent"
\* The services that expose CurrentLux, in discovery order, as a cursor
\* that opens each of them by name yields them.
ExposingHandles ==
  LET idx == SelectSeq([s \in Services |-> s], Exposing)
  IN  [i \in 1..Len(idx) |->
         [cand |-> idx[i], service |-> idx[i], name |-> names[idx[i]]]]

\* C1: after every operation, on whichever path it returned, no reference
\* was released twice and every reference obtained from the registry is
\* either owned by a live handle or cursor or was released; so none stays
\* unreleased once all handles and cursors are destroyed.
C1_ReleasedExactlyOnce ==
  /\ ~over
  /\ Accounted
  /\ (\A h \in HandleIds : ~handles[h].alive) /\ LiveCursors = {}
       => (\A s \in Services : urefs[s] = 0) /\ iters = 0
\* Everything was destroyed again, the last handle held a service.
C1_Witness ==
  /\ last.op = "dealloc"
  /\ last.before.service # MACH_PORT_NULL
  /\ \A h \in HandleIds : ~handles[h].alive
  /\ LiveCursors = {}
  /\ Len(names) = MaxReg

\* C2: a handle that next() yields refers to a service that exposes
\* CurrentLux, whatever the registry holds (names shared or not).
C2_YieldedExposes ==
  (last.op = "next" /\ last.res = "ok")
    => Exposing(handles[last.h].service)

\* C3: find_sensor() fails with NoSensorFound exactly when the first
\* advancement is the end of the sequence, and otherwise returns what the
\* advancement returned, the handle or the same error.
C3_FindPropagatesFirst ==
  (last.op = "find" /\ last.first # "NoScan")
    => /\ last.res = "NoSensorFound" <=> last.first = "StopIteration"
       /\ last.first # "StopIteration" => last.res = last.first

\* C4 as claimed: next() returns no error for a candidate whose name lookup
\* or open fails; the candidate is skipped.
C4_FailedCandidateSkipped ==
  last.op = "next" => last.res # "MemoryError"
\* C4 as amended: next() skips exactly the candidates that lack CurrentLux;
\* for a candidate that has it and whose name lookup or open fails, the
\* candidate's reference is released, next() returns an error and no handle,
\* and the cursor stays open just past that candidate.
C4_FailedCandidateReported ==
  last.op = "next" =>
    /\ \A s \in Services :
         (last.pos < s /\ s < (IF last.cand = 0 THEN Len(names) + 1 ELSE last.cand))
           => ~Exposing(s)
    /\ last.res = "MemoryError" =>
         /\ last.cand \in Services
         /\ Exposing(last.cand)
         /\ ~handles[last.h].alive
         /\ urefs[last.cand] = Cardinality(Holders(last.cand))
         /\ ~over
         /\ cursors[last.c].alive
         /\ cursors[last.c].pos = last.cand
\* next() failed on a candidate that is not the last service.
C4_Witness ==
  /\ last.op = "next"
  /\ last.res = "MemoryError"
  /\ last.cand < Len(names)
  /\ last.pos < last.cand

\* C5: with distinct names, a cursor drained without a failure over an
\* unchanged registry has yielded one handle per service that exposes
\* CurrentLux, in discovery order, each named as its service; and a handle
\* reads the current value of the service it holds.
C5_DrainYieldsExposing ==
  /\ \A c \in CursorIds :
       (cursors[c].alive /\ cursors[c].ended /\ cursors[c].clean /\ DistinctNames)
         => cursors[c].yielded = ExposingHandles
  /\ \A h \in HandleIds :
       (handles[h].alive /\ handles[h].service # MACH_PORT_NULL
          /\ lux[handles[h].service].t = "number")
         => /\ LightSensor_get_current_lux(handles[h], World).res = "ok"
            /\ LightSensor_get_current_lux(handles[h], World).value
                 = lux[handles[h].service].v
\* B (42.5 lux) and C (10.0 lux) were yielded in that order and the handle
\* of C is live.
C5_Witness ==
  /\ DistinctNames
  /\ lux = <<[t |-> "number", v |-> 85], [t |-> "number", v |-> 20]>>
  /\ \E c \in CursorIds :
       /\ cursors[c].alive /\ cursors[c].ended /\ cursors[c].clean
       /\ Len(cursors[c].yielded) = 2
  /\ \E h \in HandleIds : handles[h].alive /\ handles[h].service = 2

\* C6: LightSensor(name) returns a handle only with a reference to a
\* service of that name, never with the empty sentinel; when the scan
\* completes and no service has the name it fails with NotFound.
C6_OpenByName ==
  last.op = "open" =>
    /\ last.res = "ok" =>
         /\ handles[last.h].alive
         /\ handles[last.h].service # MACH_PORT_NULL
         /\ names[handles[last.h].service] = last.name
         /\ handles[last.h].service_name = last.name
         /\ urefs[handles[last.h].service] > 0
    /\ last.res # "ok" => ~handles[last.h].alive
    /\ (last.name # EmptyName /\ \A s \in Services : names[s] # last.name)
         => last.res = "NotFound"
\* The scan of a registry of two services completed and found no match.
C6_Witness ==
  /\ last.op = "open"
  /\ last.res = "NotFound"
  /\ last.name = Name(MaxReg + 1)
  /\ Len(names) = MaxReg

\* C7: once next() has returned end-of-sequence, every later next() on the
\* cursor returns end-of-sequence again and no handle, and the cursor stays
\* at its end.
C7_ExhaustedStays ==
  /\ (last.op = "next" /\ last.ended)
       => last.res = "StopIteration" /\ ~handles[last.h].alive
  /\ \A c \in CursorIds :
       (cursors[c].alive /\ cursors[c].ended) => cursors[c].pos = Len(names)
\* next() on a drained cursor over a registry with a service to yield.
C7_Witness ==
  /\ last.op = "next"
  /\ last.ended
  /\ \E s \in Services : Exposing(s)

\* C8: every live handle owns a reference of its own: the references held to
\* a service are at least the handles on it, none was released twice, and
\* the handle's read works whenever the service has a numeric CurrentLux.
C8_HandlesIndependent ==
  \A h \in HandleIds :
    (handles[h].alive /\ handles[h].service # MACH_PORT_NULL) =>
      /\ ~over
      /\ urefs[handles[h].service] >= Cardinality(Holders(handles[h].service))
      /\ lux[handles[h].service].t = "number"
           => LightSensor_get_current_lux(handles[h], World).res = "ok"
\* One of two handles on the same service was destroyed while a cursor is
\* open; the other handle is live and the service has a value to read.
C8_Witness ==
  /\ last.op = "dealloc"
  /\ last.before.service # MACH_PORT_NULL
  /\ Holders(last.before.service) # {}
  /\ lux[last.before.service].t = "number"
  /\ LiveCursors # {}

\* C9: get_current_lux() leaves the handle as it was and no property value
\* unreleased, and its outcome is decided by the registry as it is at the
\* call: the current value of a numeric property.
C9_ReadIsPure ==
  /\ cf = 0
  /\ last.op = "lux" =>
       /\ handles[last.h] = last.before
       /\ last.res = "InvalidHandle" <=> last.before.service = MACH_PORT_NULL
       /\ last.before.service # MACH_PORT_NULL =>
            /\ last.res = "PropertyUnavailable" <=> lux[last.before.service].t = "absent"
            /\ last.res = "TypeMismatch" <=> lux[last.before.service].t = "other"
            /\ last.res = "ok" <=> lux[last.before.service].t = "number"
            /\ last.res = "ok" => last.value = lux[last.before.service].v
\* Two reads of a handle with a registry change between them returned two
\* different values.
C9_Witness ==
  /\ last.op = "lux"
  /\ last.res = "ok"
  /\ last.prev.t = "number"
  /\ last.prev.v # last.value

\* C10: __init__ on an existing handle either fails and leaves the handle
\* and its reference as they were, or succeeds, releases the old reference
\* once and holds a service of the new name under that name.
C10_ReInitAtomic ==
  last.op = "init" =>
    /\ last.res # "ok" => handles[last.h] = last.before
    /\ last.res = "ok" =>
         /\ handles[last.h].service # MACH_PORT_NULL
         /\ handles[last.h].service_name = last.name
         /\ names[handles[last.h].service] = last.name
    /\ ~over
    /\ Accounted
\* A handle that held one service was re-initialised to another.
C10_Witness ==
  /\ last.op = "init"
  /\ last.res = "ok"
  /\ last.before.service # MACH_PORT_NULL
  /\ last.before.service # handles[last.h].service

====
